---- MODULE Spec2Model ----
(***************************************************************************)
(* The PS-challenge scoring path of the backend:                           *)
(*   app/utils/sandbox/code_runner.py  score_code        (one execution)   *)
(*   app/routers/challenge.py          score_code_and_create_share,        *)
(*                                     generate_code, the prompt cache     *)
(*   app/crud/share.py                 create_ps_share                     *)
(*                                                                         *)
(* One score request is followed from the creation of its tasks to its     *)
(* response.  Every execution is a coroutine that is cut at its awaits:    *)
(* before the workspace exists, before the child is spawned, and while     *)
(* the child runs under the deadline of asyncio.wait_for.  What the        *)
(* container does (exit code, output files) and what the host does         *)
(* (docker missing, OS errors) are choices of the environment.             *)
(*                                                                         *)
(* Python values: None of an Optional is the empty sequence and a present  *)
(* value x is <<x>>; a str is a sequence of characters; the text of        *)
(* stderr is a sequence of tokens, so that "marker in text" is decided by  *)
(* a search as in the code.                                                *)
(***************************************************************************)
EXTENDS Integers, Sequences, FiniteSets, TLC

\* ------------------------------------------------------------- bounds
MaxTestcases == 2
MaxLen == 2
MaxOverrun == 1
MaxRequests == 3
MaxGenerates == 2

\* ------------------------------------------------------ Python values
None == <<>>
Some(x) == <<x>>

\* `x or ""` of an Optional[str]
OrEmpty(x) == IF x = None THEN <<>> ELSE x[1]

Chars == {"a", " "}
Whitespace == {" ", "\n", "\t"}
Texts == UNION {[1..n -> Chars] : n \in 0..MaxLen}

RECURSIVE lstrip(_)
lstrip(s) ==
    IF s # <<>> /\ Head(s) \in Whitespace THEN lstrip(Tail(s)) ELSE s

RECURSIVE rstrip(_)
rstrip(s) ==
    IF s # <<>> /\ s[Len(s)] \in Whitespace
    THEN rstrip(SubSeq(s, 1, Len(s) - 1))
    ELSE s

\* str.strip()
strip(s) == rstrip(lstrip(s))

\* `marker in text`
Contains(text, marker) == \E k \in 1..Len(text) : text[k] = marker

\* ------------------------------------------------------ ScoringStatus
ACCEPTED == "Accepted"
WRONG_ANSWER == "Wrong Answer"
COMPILATION_ERROR == "Compilation Error"
RUNTIME_ERROR == "Runtime Error"
TIMEOUT == "Timeout"
MEMORY_LIMIT_EXCEEDED == "Memory Limit Exceeded"

ScoringStatus ==
    {ACCEPTED, WRONG_ANSWER, COMPILATION_ERROR, RUNTIME_ERROR, TIMEOUT,
     MEMORY_LIMIT_EXCEEDED}

\* ------------------------------------------------- code_runner settings
CPU_LIMIT == "0.5"
DEFAULT_MEMORY_LIMIT_MB == 128
DOCKER_IMAGE == "python-with-time"

DockerNotFoundMessage == "Docker command not found"
UnexpectedErrorMessage == "Unexpected error"
MemoryLimitMessage == <<"memory limit exceeded, process terminated">>
\* line 139: the f-string that names the limit
TimeoutMessage(timeout_seconds) ==
    <<"execution time exceeded the limit of", ToString(timeout_seconds)>>

\* ------------------------------------------------- the container's doing
(* bash -c "/usr/bin/time -v -o time_stats.txt python client_script.py     *)
(*          > stdout.txt 2> stderr.txt" inside `docker run`.  The shell    *)
(* creates stdout.txt and stderr.txt before the program starts, and        *)
(* /usr/bin/time writes time_stats.txt after the program has ended: the    *)
(* files that exist when the child exits are a prefix of that order.       *)
NoFiles == {}
ShellFiles == {"stdout.txt", "stderr.txt"}
AllFiles == {"stdout.txt", "stderr.txt", "time_stats.txt"}

\* 137 = 128 + SIGKILL: the exit code the code takes for an OOM kill.  The
\* other codes stand for: 0 success, 1 the interpreter's exit after an
\* error, 125 a failure of `docker run` itself.
EXIT_OOM == 137
ExitCodes == {0, 1, 125, EXIT_OOM}

StderrTokens == {"SyntaxError:", "IndentationError:", "Traceback"}
StderrTexts == {<<>>} \cup {<<t>> : t \in StderrTokens}

MemLabel == "Maximum resident set size (kbytes)"
StatsTexts ==
    { <<[label |-> "Exit status", value |-> 0]>>,
      <<[label |-> MemLabel, value |-> 1]>> }

\* the lines of the statistics that carry the memory label
ParseMemLine(time_stats) ==
    SelectSeq(time_stats, LAMBDA l : l.label = MemLabel)

(* How a child that exits before the deadline can end:                     *)
(*   docker run itself fails (125): the shell never ran, no file;          *)
(*   the program exits by itself (0, or 1 after an error): all files;      *)
(*   OOM kill (137): of the program alone, and /usr/bin/time then writes   *)
(*   its statistics, or of the container, and the files stay as they were. *)
Ends(o) ==
    /\ o.returncode \in {0, 1} => o.files = AllFiles
    /\ (o.returncode = 125) = (o.files = NoFiles)
    /\ ("time_stats.txt" \in o.files) = (o.time_stats # <<>>)
    /\ "stdout.txt" \notin o.files => o.stdout = <<>> /\ o.stderr = <<>>

(* The runs that are enumerated differ from a plain run (the program       *)
(* prints "a", writes nothing to stderr, the statistics hold the memory    *)
(* line) in one respect at a time, and the text of stdout varies for the   *)
(* runs that exit with 0.                                                  *)
PlainStdout == <<"a">>
Enumerated(o) ==
    LET off(b) == IF b THEN 1 ELSE 0
        has_out == "stdout.txt" \in o.files
        has_stats == "time_stats.txt" \in o.files
    IN  /\ off(has_out /\ o.stdout # PlainStdout)
             + off(has_out /\ o.stderr # <<>>)
             + off(has_stats /\ ParseMemLine(o.time_stats) = <<>>) <= 1
        /\ has_out /\ o.stdout # PlainStdout => o.returncode = 0

ChildOutcomes ==
    { o \in [returncode : ExitCodes, files : {NoFiles, ShellFiles, AllFiles},
             stdout : Texts, stderr : StderrTexts,
             time_stats : StatsTexts \cup {<<>>}] :
        Ends(o) /\ Enumerated(o) }

\* -------------------------------------------------- score_code's results
Truthy(error) == error # None /\ error[1] # ""

\* lines 105-107: re.search of the labelled line, int() of its digits
ParseMaxMemory(time_stats) ==
    LET mem_match == ParseMemLine(time_stats)
    IN  IF mem_match # <<>> THEN Some(mem_match[1].value) ELSE None

\* faulty variant of ErrorTypeOfStderr: only the SyntaxError marker is looked for
ErrorTypeSyntaxOnly(user_stderr) ==
    IF Contains(user_stderr, "SyntaxError:")
    THEN COMPILATION_ERROR
    ELSE RUNTIME_ERROR

\* lines 121-124
ErrorTypeOfStderr(user_stderr) ==
    IF Contains(user_stderr, "SyntaxError:")
       \/ Contains(user_stderr, "IndentationError:")
    THEN COMPILATION_ERROR
    ELSE RUNTIME_ERROR

\* faulty variant of CompletedResult: int(mem_match.group(1)) without the
\* test of mem_match; the AttributeError of a missing line is caught by the
\* handler of lines 160-166
CompletedResultMemRequired(o, elapsed_time) ==
    IF ParseMemLine(o.time_stats) = <<>>
    THEN [success |-> FALSE, stdout |-> <<>>, stderr |-> <<"AttributeError">>,
          max_memory_kb |-> None, elapsed_time |-> elapsed_time,
          error |-> Some(UnexpectedErrorMessage)]
    ELSE [success |-> o.returncode = 0,
          stdout |-> o.stdout,
          stderr |-> IF o.returncode = EXIT_OOM /\ o.stderr = <<>>
                     THEN MemoryLimitMessage ELSE o.stderr,
          max_memory_kb |-> ParseMaxMemory(o.time_stats),
          elapsed_time |-> elapsed_time,
          error |-> IF o.returncode = 0 THEN None
                    ELSE IF o.returncode = EXIT_OOM
                         THEN Some(MEMORY_LIMIT_EXCEEDED)
                         ELSE Some(ErrorTypeOfStderr(o.stderr))]

\* lines 98-133: the child has exited and the three files were read
CompletedResult(o, elapsed_time) ==
    LET is_oom == o.returncode = EXIT_OOM
        error_type ==
            IF o.returncode = 0 THEN None
            ELSE IF is_oom THEN Some(MEMORY_LIMIT_EXCEEDED)
            ELSE Some(ErrorTypeOfStderr(o.stderr))
        user_stderr ==
            IF is_oom /\ o.stderr = <<>> THEN MemoryLimitMessage ELSE o.stderr
    IN  [success |-> o.returncode = 0,
         stdout |-> o.stdout,
         stderr |-> user_stderr,
         max_memory_kb |-> ParseMaxMemory(o.time_stats),
         elapsed_time |-> elapsed_time,
         error |-> error_type]

\* faulty variant of TimeoutResult: an error text that is no ScoringStatus
TimeoutResultOtherName(timeout_seconds, elapsed_time) ==
    [success |-> FALSE, stdout |-> <<>>,
     stderr |-> TimeoutMessage(timeout_seconds),
     max_memory_kb |-> None, elapsed_time |-> elapsed_time,
     error |-> Some("Time Limit Exceeded")]

\* faulty variant of TimeoutResult: no time is measured, as in the branch of
\* the missing docker command
TimeoutResultZeroElapsed(timeout_seconds, elapsed_time) ==
    [success |-> FALSE, stdout |-> <<>>,
     stderr |-> TimeoutMessage(timeout_seconds),
     max_memory_kb |-> None, elapsed_time |-> 0,
     error |-> Some(TIMEOUT)]

\* lines 135-141
TimeoutResult(timeout_seconds, elapsed_time) ==
    [success |-> FALSE, stdout |-> <<>>,
     stderr |-> TimeoutMessage(timeout_seconds),
     max_memory_kb |-> None, elapsed_time |-> elapsed_time,
     error |-> Some(TIMEOUT)]

\* lines 142-159: FileNotFoundError, raised by the spawn (no docker binary)
\* or by the opening of an output file that is not there
FileNotFoundResult(docker_sock, files, stderr_text, elapsed_time) ==
    IF ~docker_sock
    THEN [success |-> FALSE, stdout |-> <<>>, stderr |-> <<>>,
          max_memory_kb |-> None, elapsed_time |-> 0,
          error |-> Some(DockerNotFoundMessage)]
    ELSE [success |-> FALSE, stdout |-> <<>>,
          stderr |-> IF "stderr.txt" \in files THEN stderr_text ELSE <<>>,
          max_memory_kb |-> None, elapsed_time |-> elapsed_time,
          error |-> Some(RUNTIME_ERROR)]

\* lines 160-166
UnexpectedResult(elapsed_time) ==
    [success |-> FALSE, stdout |-> <<>>, stderr |-> <<"OSError">>,
     max_memory_kb |-> None, elapsed_time |-> elapsed_time,
     error |-> Some(UnexpectedErrorMessage)]

\* lines 98-133 with 142-159: what score_code returns once the child has
\* exited before the deadline
ExitResult(o, docker_sock, elapsed_time) ==
    IF AllFiles \subseteq o.files
    THEN CompletedResult(o, elapsed_time)
    ELSE FileNotFoundResult(docker_sock, o.files, o.stderr, elapsed_time)

\* ------------------------------------- score_code_and_create_share, pure
\* faulty variant of StatusOf: the outputs are compared as they are
StatusOfUnstripped(result, tc) ==
    IF Truthy(result.error)
    THEN IF result.error[1] \in ScoringStatus
         THEN result.error[1]
         ELSE RUNTIME_ERROR
    ELSE IF result.success /\ result.stdout = OrEmpty(tc.output)
         THEN ACCEPTED
         ELSE WRONG_ANSWER

\* faulty variant of StatusOf: the error of the result is not looked at
StatusOfIgnoringError(result, tc) ==
    IF result.success /\ strip(result.stdout) = strip(OrEmpty(tc.output))
    THEN ACCEPTED
    ELSE WRONG_ANSWER

\* faulty variant of StatusOf: an unknown error text falls back to the default
StatusOfUnknownAsDefault(result, tc) ==
    IF Truthy(result.error)
    THEN IF result.error[1] \in ScoringStatus
         THEN result.error[1]
         ELSE WRONG_ANSWER
    ELSE IF result.success
            /\ strip(result.stdout) = strip(OrEmpty(tc.output))
         THEN ACCEPTED
         ELSE WRONG_ANSWER

\* faulty variant of StatusOf: ScoringStatus(error) without the except
\* clause, the ValueError of an unknown error text ends the classification
StatusOfNoFallback(result, tc) ==
    IF Truthy(result.error)
    THEN IF result.error[1] \in ScoringStatus
         THEN result.error[1]
         ELSE "ValueError"
    ELSE IF result.success
            /\ strip(result.stdout) = strip(OrEmpty(tc.output))
         THEN ACCEPTED
         ELSE WRONG_ANSWER

\* faulty variant of StatusOf: only the output decides
StatusOfOutputOnly(result, tc) ==
    IF strip(result.stdout) = strip(OrEmpty(tc.output))
    THEN ACCEPTED
    ELSE IF Truthy(result.error) /\ result.error[1] \in ScoringStatus
         THEN result.error[1]
         ELSE WRONG_ANSWER

\* challenge.py lines 828-839
StatusOf(result, tc) ==
    IF Truthy(result.error)
    THEN IF result.error[1] \in ScoringStatus
         THEN result.error[1]
         ELSE RUNTIME_ERROR
    ELSE IF result.success
            /\ strip(result.stdout) = strip(OrEmpty(tc.output))
         THEN ACCEPTED
         ELSE WRONG_ANSWER

\* challenge.py lines 841-850
ScoringResult(tc, result) ==
    [testcase_id |-> tc.id,
     status |-> StatusOf(result, tc),
     stdout |-> result.stdout,
     stderr |-> result.stderr,
     elapsed_time |-> result.elapsed_time,
     max_memory_kb |-> result.max_memory_kb]

\* faulty variant of AllAccepted: any() in the place of all()
AnyAccepted(results) ==
    \E k \in 1..Len(results) : results[k].status = ACCEPTED

\* challenge.py lines 853-855
AllAccepted(results) ==
    \A k \in 1..Len(results) : results[k].status = ACCEPTED

\* faulty variant of Gather: the results in the order of completion
GatherAsCompleted(results, completion_order) ==
    [k \in 1..Len(completion_order) |-> results[completion_order[k]]]

\* asyncio.gather: the results in the order of the awaitables, whatever the
\* order in which they completed (challenge.py line 816)
Gather(results, completion_order) ==
    [k \in 1..Len(completion_order) |-> results[k]]

\* zip(testcases, execution_results) and the loop over it, lines 818-850
ScoreAll(tcs, execution_results) ==
    LET n == IF Len(tcs) < Len(execution_results)
             THEN Len(tcs) ELSE Len(execution_results)
    IN  [k \in 1..n |-> ScoringResult(tcs[k], execution_results[k])]

\* ---------------------------------------------------------------- state
Users == {1}
ChallengeId == 1
\* the prompt of the n-th generate call: the texts of successive calls differ
PromptOf(n) == "p" \o ToString(n)
Prompts == {PromptOf(n) : n \in 1..MaxGenerates}
Codes == {"code"}
TimeLimits == {1}
MemLimits == {128}
DirNames == 1..MaxTestcases

\* PSTestcase.output: missing, empty, a text, a text with whitespace around
Outputs == {None, Some(<<>>), Some(<<"a">>), Some(<<"a", " ">>)}

\* a row of PSTestcase (relations/challenge.py lines 115-133), loaded from
\* the database: its primary key is set
PSTestcase(id, output, time_limit, mem_limit) ==
    [id |-> id, input |-> None, output |-> output,
     time_limit |-> time_limit, mem_limit |-> mem_limit]

VARIABLES
    testcases,        \* db_challenge.ps_challenge.testcases
    request,          \* the score request: None, or Some([user, code, pc])
    pc,               \* per execution: where its coroutine stands
    temp_dir,         \* per execution: its workspace directory, if any
    dirs,             \* the workspace directories that exist on the host
    container,        \* per execution: the container (run with --rm) of its
                      \* child while it lives, with its `docker run` options
    child,            \* per execution: "none", "running" or "exited"
    outcome,          \* per execution: how the attempt ended
    result,           \* per execution: the dict score_code returned
    done_order,       \* the executions in the order they completed
    scoring_results,  \* the list the handler builds
    all_accepted,     \* None until the handler computes it
    response,         \* None, or Some of what the caller receives
    prompt_cache,     \* prompt_cache_for_ps_challenge
    shares,           \* the rows of Share with their PSShare
    generated         \* the generate calls that succeeded, in their order

vars ==
    <<testcases, request, pc, temp_dir, dirs, container, child, outcome,
      result, done_order, scoring_results, all_accepted, response,
      prompt_cache, shares, generated>>

\* the coroutines handed to gather, one per test case
Tasks == DOMAIN pc

NoOutcome == [kind |-> "none", exit |-> None]
NoResult == None

Challenges ==
    UNION { [1..n -> Outputs] : n \in 0..MaxTestcases }

Init ==
    /\ \E outs \in Challenges, t \in TimeLimits, m \in MemLimits :
         testcases = [k \in 1..Len(outs) |-> PSTestcase(k, outs[k], t, m)]
    /\ request = None
    /\ pc = <<>>
    /\ temp_dir = <<>>
    /\ dirs = {}
    /\ container = <<>>
    /\ child = <<>>
    /\ outcome = <<>>
    /\ result = <<>>
    /\ done_order = <<>>
    /\ scoring_results = <<>>
    /\ all_accepted = None
    /\ response = None
    /\ prompt_cache = <<>>
    /\ shares = <<>>
    /\ generated = <<>>

\* ------------------------------------------------------------- requests
Gathering == request # None /\ request[1].pc = "gathering"

ElapsedBefore(timeout_seconds) == 0..(timeout_seconds - 1)
ElapsedAfter(timeout_seconds) == timeout_seconds..(timeout_seconds + MaxOverrun)

\* faulty variant of CachePut: the first prompt of a key is kept
\* (dict.setdefault)
CachePutIfAbsent(cache, key, value) ==
    [k \in DOMAIN cache \cup {key} |->
        IF k \in DOMAIN cache THEN cache[k] ELSE value]

\* dict[key] = value, challenge.py line 742
CachePut(cache, key, value) ==
    [k \in DOMAIN cache \cup {key} |-> IF k = key THEN value ELSE cache[k]]

\* faulty variant of GenerateCode: the cache is keyed by the challenge alone
GenerateCodeByChallenge(user, challenge_id, prompt) ==
    /\ Len(generated) < MaxGenerates
    /\ prompt_cache' = CachePut(prompt_cache, <<1, challenge_id>>, prompt)
    /\ generated' =
         Append(generated,
                [user |-> user, challenge_id |-> challenge_id,
                 prompt |-> prompt])
    /\ UNCHANGED <<testcases, request, pc, temp_dir, dirs, container, child,
                   outcome, result, done_order, scoring_results,
                   all_accepted, response, shares>>

\* generate_code, challenge.py lines 739-743, from the moment gemini has
\* answered: the prompt is stored under (current_user.id, challenge_id).
\* The call is recorded when it succeeds; calls whose answers are awaited
\* at the same time are ordered by the arrival of their answers.
GenerateCode(user, challenge_id, prompt) ==
    /\ Len(generated) < MaxGenerates
    /\ prompt_cache' = CachePut(prompt_cache, <<user, challenge_id>>, prompt)
    /\ generated' =
         Append(generated,
                [user |-> user, challenge_id |-> challenge_id,
                 prompt |-> prompt])
    /\ UNCHANGED <<testcases, request, pc, temp_dir, dirs, container, child,
                   outcome, result, done_order, scoring_results,
                   all_accepted, response, shares>>

\* score_code_and_create_share, lines 793-816: an authenticated user, an
\* existing PS challenge; one coroutine per test case is handed to gather
StartScore(user, code) ==
    /\ request = None
    /\ request' = Some([user |-> user, code |-> code, pc |-> "gathering"])
    /\ pc' = [k \in DOMAIN testcases |-> "created"]
    /\ temp_dir' = [k \in DOMAIN testcases |-> None]
    /\ container' = [k \in DOMAIN testcases |-> None]
    /\ child' = [k \in DOMAIN testcases |-> "none"]
    /\ outcome' = [k \in DOMAIN testcases |-> NoOutcome]
    /\ result' = [k \in DOMAIN testcases |-> NoResult]
    /\ UNCHANGED <<generated, testcases, dirs, done_order, scoring_results,
                   all_accepted, response, prompt_cache, shares>>

\* the directories that a living container has mounted
Mounted == {container[j][1].volume : j \in {k \in Tasks : container[k] # None}}

\* faulty variant of Acquire: one working directory for every execution
AcquireShared(i) ==
    /\ pc[i] = "created"
    /\ temp_dir' = [temp_dir EXCEPT ![i] = Some(1)]
    /\ dirs' = dirs \cup {1}
    /\ pc' = [pc EXCEPT ![i] = "spawn"]
    /\ UNCHANGED <<generated, testcases, request, container, child, outcome, result,
                   done_order, scoring_results, all_accepted, response,
                   prompt_cache, shares>>

\* score_code lines 50-57: the workspace is created and the script written.
\* mkdtemp makes a new directory: it is none of those that exist, and none
\* of the removed ones that a container left behind still has mounted.
Acquire(i) ==
    /\ pc[i] = "created"
    /\ \E d \in DirNames \ (dirs \cup Mounted) :
         /\ temp_dir' = [temp_dir EXCEPT ![i] = Some(d)]
         /\ dirs' = dirs \cup {d}
    /\ pc' = [pc EXCEPT ![i] = "spawn"]
    /\ UNCHANGED <<generated, testcases, request, container, child, outcome, result,
                   done_order, scoring_results, all_accepted, response,
                   prompt_cache, shares>>

\* score_code lines 50-57 raise (OSError of mkdtemp, open or write): nothing
\* catches it, the coroutine ends with the exception
AcquireFails(i) ==
    /\ pc[i] = "created"
    /\ pc' = [pc EXCEPT ![i] = "raised"]
    /\ outcome' = [outcome EXCEPT ![i] = [kind |-> "workspace_error", exit |-> None]]
    /\ done_order' = Append(done_order, i)
    /\ UNCHANGED <<generated, testcases, request, temp_dir, dirs, container, child,
                   result, scoring_results, all_accepted, response,
                   prompt_cache, shares>>

\* faulty variant of Release: mkdtemp without the `with` block
ReleaseNothing(i) == dirs

\* the end of the `with` block: the directory and its files are removed
Release(i) == dirs \ {temp_dir[i][1]}

\* what every return of score_code does to the execution
Return(i, how, res) ==
    /\ pc' = [pc EXCEPT ![i] = "done"]
    /\ outcome' = [outcome EXCEPT ![i] = how]
    /\ result' = [result EXCEPT ![i] = Some(res)]
    /\ dirs' = Release(i)
    /\ temp_dir' = [temp_dir EXCEPT ![i] = None]
    /\ done_order' = Append(done_order, i)

\* faulty variant of Spawn: a sequential loop, a child is launched when the
\* executions before it have ended
SpawnSequential(i) ==
    /\ pc[i] = "spawn"
    /\ \A j \in Tasks : j < i => pc[j] \in {"done", "raised", "cancelled"}
    /\ pc' = [pc EXCEPT ![i] = "communicate"]
    /\ container' =
         [container EXCEPT ![i] =
            Some([network |-> "none", memory |-> testcases[i].mem_limit,
                  cpus |-> CPU_LIMIT, volume |-> temp_dir[i][1],
                  image |-> DOCKER_IMAGE])]
    /\ child' = [child EXCEPT ![i] = "running"]
    /\ UNCHANGED <<generated, testcases, request, temp_dir, dirs, outcome, result,
                   done_order, scoring_results, all_accepted, response,
                   prompt_cache, shares>>

\* faulty variant of Spawn: the memory ceiling is the default, not the limit
\* of the request
SpawnDefaultMemory(i) ==
    /\ pc[i] = "spawn"
    /\ pc' = [pc EXCEPT ![i] = "communicate"]
    /\ container' =
         [container EXCEPT ![i] =
            Some([network |-> "none", memory |-> DEFAULT_MEMORY_LIMIT_MB,
                  cpus |-> CPU_LIMIT, volume |-> temp_dir[i][1],
                  image |-> DOCKER_IMAGE])]
    /\ child' = [child EXCEPT ![i] = "running"]
    /\ UNCHANGED <<generated, testcases, request, temp_dir, dirs, outcome, result,
                   done_order, scoring_results, all_accepted, response,
                   prompt_cache, shares>>

\* score_code lines 68-90: docker run is spawned with its limits
Spawn(i) ==
    /\ pc[i] = "spawn"
    /\ pc' = [pc EXCEPT ![i] = "communicate"]
    /\ container' =
         [container EXCEPT ![i] =
            Some([network |-> "none", memory |-> testcases[i].mem_limit,
                  cpus |-> CPU_LIMIT, volume |-> temp_dir[i][1],
                  image |-> DOCKER_IMAGE])]
    /\ child' = [child EXCEPT ![i] = "running"]
    /\ UNCHANGED <<generated, testcases, request, temp_dir, dirs, outcome, result,
                   done_order, scoring_results, all_accepted, response,
                   prompt_cache, shares>>

\* line 85 raises FileNotFoundError (no docker binary): lines 142-159
SpawnDockerMissing(i) ==
    /\ pc[i] = "spawn"
    /\ \E docker_sock \in BOOLEAN,
          elapsed \in ElapsedBefore(testcases[i].time_limit) :
         Return(i, [kind |-> "docker_missing", exit |-> None],
                FileNotFoundResult(docker_sock, NoFiles, <<>>, elapsed))
    /\ UNCHANGED <<generated, testcases, request, container, child,
                   scoring_results, all_accepted, response, prompt_cache,
                   shares>>

\* line 85 raises another exception (PermissionError, OSError): lines 160-166
SpawnUnexpected(i) ==
    /\ pc[i] = "spawn"
    /\ \E elapsed \in ElapsedBefore(testcases[i].time_limit) :
         Return(i, [kind |-> "spawn_error", exit |-> None],
                UnexpectedResult(elapsed))
    /\ UNCHANGED <<generated, testcases, request, container, child,
                   scoring_results, all_accepted, response, prompt_cache,
                   shares>>

\* lines 93-133 (and 142-159 when a file is missing): the child exits before
\* the deadline, the files are read back and classified
ChildExit(i) ==
    /\ pc[i] = "communicate"
    /\ child[i] = "running"
    /\ child' = [child EXCEPT ![i] = "exited"]
    /\ container' = [container EXCEPT ![i] = None]
    /\ \E o \in ChildOutcomes, docker_sock \in BOOLEAN,
          elapsed \in ElapsedBefore(testcases[i].time_limit) :
         Return(i, [kind |-> "exit", exit |-> Some(o)],
                ExitResult(o, docker_sock, elapsed))
    /\ UNCHANGED <<generated, testcases, request, scoring_results, all_accepted,
                   response, prompt_cache, shares>>

\* faulty variant of Deadline: the timeout of one execution ends the children
\* of the whole batch
DeadlineKillsAll(i) ==
    /\ pc[i] = "communicate"
    /\ child[i] = "running"
    /\ child' = [j \in Tasks |-> IF child[j] = "running" THEN "exited" ELSE child[j]]
    /\ container' = [j \in Tasks |-> None]
    /\ \E elapsed \in ElapsedAfter(testcases[i].time_limit) :
         Return(i, [kind |-> "timeout", exit |-> None],
                TimeoutResult(testcases[i].time_limit, elapsed))
    /\ UNCHANGED <<generated, testcases, request, scoring_results, all_accepted,
                   response, prompt_cache, shares>>

\* faulty variant of Deadline: communicate() awaited without wait_for
DeadlineNever(i) ==
    /\ pc[i] = "communicate"
    /\ FALSE
    /\ UNCHANGED vars

\* lines 93-96 and 135-141: the deadline of wait_for elapses first; the
\* waiting is cancelled, the child process is left as it is
Deadline(i) ==
    /\ pc[i] = "communicate"
    /\ child[i] = "running"
    /\ \E elapsed \in ElapsedAfter(testcases[i].time_limit) :
         Return(i, [kind |-> "timeout", exit |-> None],
                TimeoutResult(testcases[i].time_limit, elapsed))
    /\ UNCHANGED <<generated, testcases, request, container, child,
                   scoring_results, all_accepted, response, prompt_cache,
                   shares>>

\* a child whose execution has timed out or was cancelled ends at some
\* later time
OrphanExit(i) ==
    /\ pc[i] \in {"done", "cancelled"}
    /\ child[i] = "running"
    /\ child' = [child EXCEPT ![i] = "exited"]
    /\ container' = [container EXCEPT ![i] = None]
    /\ UNCHANGED <<generated, testcases, request, pc, temp_dir, dirs,
                   outcome, result, done_order, scoring_results,
                   all_accepted, response, prompt_cache, shares>>

\* dict.pop(key, None), challenge.py lines 861-863
CacheGet(cache, key) == IF key \in DOMAIN cache THEN Some(cache[key]) ELSE None

\* faulty variant of CacheWithout: dict.get in the place of dict.pop
CacheKept(cache, key) == cache

CacheWithout(cache, key) == [k \in DOMAIN cache \ {key} |-> cache[k]]

\* crud/share.py create_ps_share with the ShareCreate and PSShareCreate of
\* challenge.py lines 870-873
NewShare(user, code, accepted, prompt) ==
    [user_id |-> user, challenge_id |-> ChallengeId, is_public |-> accepted,
     prompt |-> prompt, ps_share |-> [code |-> code, is_correct |-> accepted]]

\* faulty variant of CreatePsShare: only a correct submission is recorded
CreatePsShareIfCorrect(rows, user, code, accepted, prompt) ==
    IF accepted THEN Append(rows, NewShare(user, code, accepted, prompt))
    ELSE rows

\* create_ps_share called with the share_in and ps_share_in of lines 870-876
CreatePsShare(rows, user, code, accepted, prompt) ==
    Append(rows, NewShare(user, code, accepted, prompt))

\* lines 816-878: gather has every result; the verdicts, all_accepted, the
\* prompt taken from the cache, the share, the response.  commit_ok = FALSE
\* is db.commit() raising: no row, and the caller receives an error.
GatherReturn ==
    /\ Gathering
    /\ \A i \in Tasks : pc[i] = "done"
    /\ LET req == request[1]
           key == <<req.user, ChallengeId>>
           execution_results ==
               Gather([k \in Tasks |-> result[k][1]], done_order)
           verdicts == ScoreAll(testcases, execution_results)
           accepted == AllAccepted(verdicts)
           prompt == IF accepted THEN CacheGet(prompt_cache, key) ELSE None
       IN  /\ scoring_results' = verdicts
           /\ all_accepted' = Some(accepted)
           /\ prompt_cache' =
                IF accepted THEN CacheWithout(prompt_cache, key)
                ELSE prompt_cache
           /\ \E commit_ok \in BOOLEAN :
                IF commit_ok
                THEN /\ shares' =
                          CreatePsShare(shares, req.user, req.code, accepted,
                                        prompt)
                     /\ response' =
                          Some([status_code |-> 200, body |-> verdicts])
                ELSE /\ shares' = shares
                     /\ response' = Some([status_code |-> 500, body |-> <<>>])
           /\ request' = Some([req EXCEPT !.pc = "done"])
    /\ UNCHANGED <<generated, testcases, pc, temp_dir, dirs, container, child, outcome,
                   result, done_order>>

\* line 816 with return_exceptions unset: the first exception of a task is
\* raised in the handler at once; the other tasks are not cancelled.  The
\* handler is resumed through the event loop's queue, behind the first step
\* of every task of the batch.
GatherRaise ==
    /\ Gathering
    /\ \E i \in Tasks : pc[i] = "raised"
    /\ \A i \in Tasks : pc[i] # "created"
    /\ request' = Some([request[1] EXCEPT !.pc = "done"])
    /\ response' = Some([status_code |-> 500, body |-> <<>>])
    /\ UNCHANGED <<generated, testcases, pc, temp_dir, dirs, container, child, outcome,
                   result, done_order, scoring_results, all_accepted,
                   prompt_cache, shares>>

\* the task of the handler is cancelled while it awaits gather (the server
\* shuts down, the client has gone): gather cancels every task that is not
\* done, and CancelledError leaves score_code at its await through the
\* `with` block.  A cancelled spawn closes its transport, which kills the
\* child; a cancelled communicate leaves the child as it is.
Cancel ==
    /\ Gathering
    /\ \A i \in Tasks : pc[i] # "created"
    /\ \E i \in Tasks : pc[i] \in {"spawn", "communicate"}
    /\ LET live == {i \in Tasks : pc[i] \in {"spawn", "communicate"}}
       IN  /\ pc' = [i \in Tasks |-> IF i \in live THEN "cancelled" ELSE pc[i]]
           /\ outcome' =
                [i \in Tasks |->
                   IF i \in live THEN [kind |-> "cancelled", exit |-> None]
                   ELSE outcome[i]]
           /\ dirs' = dirs \ {temp_dir[i][1] : i \in live}
           /\ temp_dir' =
                [i \in Tasks |-> IF i \in live THEN None ELSE temp_dir[i]]
    /\ request' = Some([request[1] EXCEPT !.pc = "cancelled"])
    /\ UNCHANGED <<generated, testcases, container, child, result, done_order,
                   scoring_results, all_accepted, response, prompt_cache,
                   shares>>

Next ==
    \/ \E user \in Users, code \in Codes : StartScore(user, code)
    \/ \E i \in Tasks : Acquire(i)
    \/ \E i \in Tasks : AcquireFails(i)
    \/ \E i \in Tasks : Spawn(i)
    \/ \E i \in Tasks : SpawnDockerMissing(i)
    \/ \E i \in Tasks : SpawnUnexpected(i)
    \/ \E i \in Tasks : ChildExit(i)
    \/ \E i \in Tasks : Deadline(i)
    \/ \E i \in Tasks : OrphanExit(i)
    \/ GatherReturn
    \/ GatherRaise
    \/ Cancel

Spec == Init /\ [][Next]_vars

(* The same handler for challenges whose test cases differ in their memory *)
(* limit and all expect the plain output.                                  *)
MemLimitsWide == {64, 128}

InitLimits ==
    /\ \E mems \in UNION {[1..n -> MemLimitsWide] : n \in 0..MaxTestcases},
          t \in TimeLimits :
         testcases =
             [k \in 1..Len(mems) |->
                PSTestcase(k, Some(PlainStdout), t, mems[k])]
    /\ request = None
    /\ pc = <<>>
    /\ temp_dir = <<>>
    /\ dirs = {}
    /\ container = <<>>
    /\ child = <<>>
    /\ outcome = <<>>
    /\ result = <<>>
    /\ done_order = <<>>
    /\ scoring_results = <<>>
    /\ all_accepted = None
    /\ response = None
    /\ prompt_cache = <<>>
    /\ shares = <<>>
    /\ generated = <<>>

SpecLimits == InitLimits /\ [][Next]_vars

(* What the event loop guarantees: a task that is ready takes its next     *)
(* step, the timer of wait_for fires unless the child has exited first,    *)
(* and the handler goes on once gather has its results or an exception.    *)
(* Nothing makes a child exit: ChildExit and OrphanExit are not fair.      *)
Fairness ==
    /\ \A i \in 1..MaxTestcases :
         /\ WF_vars(i \in Tasks /\ (Acquire(i) \/ AcquireFails(i)))
         /\ WF_vars(i \in Tasks
                      /\ (Spawn(i) \/ SpawnDockerMissing(i)
                            \/ SpawnUnexpected(i)))
         /\ WF_vars(i \in Tasks /\ Deadline(i))
    /\ WF_vars(GatherReturn)
    /\ WF_vars(GatherRaise)

FairSpec == InitLimits /\ [][Next]_vars /\ Fairness

(* ---------------------------------------------------------------------- *)
(* The requests of several users on several challenges.  A score request  *)
(* is cut at its one await, the gather of line 816: what is before it     *)
(* (lines 793-814) and what is after it (lines 818-878, which hold no     *)
(* await) are one step each, and the executions of its batch are taken by *)
(* their results.  `request` holds the score requests in the order of     *)
(* their arrival.                                                         *)
(* ---------------------------------------------------------------------- *)
UsersWide == {1, 2}
ChallengeIds == {1, 2}

\* the code of the n-th score request: successive requests submit different
\* programs
CodeOf(n) == "code" \o ToString(n)
CodesWide == {CodeOf(n) : n \in 1..MaxRequests}

\* every challenge has one test case, which expects the plain output
TestcasesOf(challenge_id) ==
    <<PSTestcase(challenge_id, Some(PlainStdout),
                 CHOOSE t \in TimeLimits : TRUE,
                 CHOOSE m \in MemLimits : TRUE)>>

\* a run that prints the plain output, and one that prints nothing
PlainRun ==
    [returncode |-> 0, files |-> AllFiles, stdout |-> PlainStdout,
     stderr |-> <<>>, time_stats |-> <<[label |-> MemLabel, value |-> 1]>>]
SilentRun == [PlainRun EXCEPT !.stdout = <<>>]

\* what gather can return for a batch
BatchResults(tcs) ==
    [DOMAIN tcs -> {ExitResult(PlainRun, TRUE, 0),
                    ExitResult(SilentRun, TRUE, 0)}]

\* the Share of lines 870-873 for the challenge of the request
NewShareFor(user, challenge_id, code, accepted, prompt) ==
    [NewShare(user, code, accepted, prompt)
        EXCEPT !.challenge_id = challenge_id]

\* faulty variant of get_ps_challenge_accuracy_rate: shares are counted, not
\* distinct users
AccuracyRatePerShare(rows, challenge_id) ==
    LET of_challenge ==
            {k \in DOMAIN rows : rows[k].challenge_id = challenge_id}
        correct == {k \in of_challenge : rows[k].ps_share.is_correct}
    IN  IF Cardinality(of_challenge) = 0
        THEN [num |-> 0, den |-> 1]
        ELSE [num |-> Cardinality(correct), den |-> Cardinality(of_challenge)]

\* crud/challenge.py lines 474-510.  The float that is returned is kept as
\* the fraction it is computed from; 0.0 is 0/1.
get_ps_challenge_accuracy_rate(rows, challenge_id) ==
    LET of_challenge ==
            {k \in DOMAIN rows : rows[k].challenge_id = challenge_id}
        total_users_count ==
            Cardinality({rows[k].user_id : k \in of_challenge})
        correct_users_count ==
            Cardinality({rows[k].user_id :
                            k \in {j \in of_challenge :
                                      rows[j].ps_share.is_correct}})
    IN  IF total_users_count = 0
        THEN [num |-> 0, den |-> 1]
        ELSE [num |-> correct_users_count, den |-> total_users_count]

InitShares ==
    /\ testcases = TestcasesOf(ChallengeId)
    /\ request = <<>>
    /\ pc = <<>>
    /\ temp_dir = <<>>
    /\ dirs = {}
    /\ container = <<>>
    /\ child = <<>>
    /\ outcome = <<>>
    /\ result = <<>>
    /\ done_order = <<>>
    /\ scoring_results = <<>>
    /\ all_accepted = None
    /\ response = None
    /\ prompt_cache = <<>>
    /\ shares = <<>>
    /\ generated = <<>>

\* lines 793-816: the request arrives and awaits its batch
ScoreBegin(user, challenge_id, code) ==
    /\ Len(request) < MaxRequests
    /\ request' =
         Append(request,
                [user |-> user, challenge_id |-> challenge_id, code |-> code,
                 pc |-> "gathering", share |-> None])
    /\ UNCHANGED <<generated, testcases, pc, temp_dir, dirs, container,
                   child, outcome, result, done_order, scoring_results,
                   all_accepted, response, prompt_cache, shares>>

\* faulty variant of ScoreFinish: the prompt is taken from the cache whatever
\* the verdicts are
ScoreFinishAlwaysPops(r) ==
    /\ request[r].pc = "gathering"
    /\ LET req == request[r]
           key == <<req.user, req.challenge_id>>
           tcs == TestcasesOf(req.challenge_id)
       IN  \E execution_results \in BatchResults(tcs), commit_ok \in BOOLEAN :
             LET verdicts == ScoreAll(tcs, execution_results)
                 accepted == AllAccepted(verdicts)
                 prompt == CacheGet(prompt_cache, key)
             IN  /\ prompt_cache' = CacheWithout(prompt_cache, key)
                 /\ IF commit_ok
                    THEN /\ shares' =
                              Append(shares,
                                     NewShareFor(req.user, req.challenge_id,
                                                 req.code, accepted, prompt))
                         /\ request' =
                              [request EXCEPT
                                 ![r] = [req EXCEPT
                                           !.pc = "done",
                                           !.share = Some(Len(shares) + 1)]]
                    ELSE /\ shares' = shares
                         /\ request' =
                              [request EXCEPT ![r] = [req EXCEPT !.pc = "failed"]]
    /\ UNCHANGED <<generated, testcases, pc, temp_dir, dirs, container,
                   child, outcome, result, done_order, scoring_results,
                   all_accepted, response>>

\* lines 818-878: gather has returned the results of the batch; verdicts,
\* all_accepted, the prompt taken from the cache, the share.  commit_ok =
\* FALSE is db.commit() raising: no row is written.
ScoreFinish(r) ==
    /\ request[r].pc = "gathering"
    /\ LET req == request[r]
           key == <<req.user, req.challenge_id>>
           tcs == TestcasesOf(req.challenge_id)
       IN  \E execution_results \in BatchResults(tcs), commit_ok \in BOOLEAN :
             LET verdicts == ScoreAll(tcs, execution_results)
                 accepted == AllAccepted(verdicts)
                 prompt ==
                     IF accepted THEN CacheGet(prompt_cache, key) ELSE None
             IN  /\ prompt_cache' =
                      IF accepted THEN CacheWithout(prompt_cache, key)
                      ELSE prompt_cache
                 /\ IF commit_ok
                    THEN /\ shares' =
                              Append(shares,
                                     NewShareFor(req.user, req.challenge_id,
                                                 req.code, accepted, prompt))
                         /\ request' =
                              [request EXCEPT
                                 ![r] = [req EXCEPT
                                           !.pc = "done",
                                           !.share = Some(Len(shares) + 1)]]
                    ELSE /\ shares' = shares
                         /\ request' =
                              [request EXCEPT ![r] = [req EXCEPT !.pc = "failed"]]
    /\ UNCHANGED <<generated, testcases, pc, temp_dir, dirs, container,
                   child, outcome, result, done_order, scoring_results,
                   all_accepted, response>>

\* line 816 raises (an execution raised, or the handler was cancelled): the
\* request ends before line 818
ScoreFail(r) ==
    /\ request[r].pc = "gathering"
    /\ request' = [request EXCEPT ![r] = [@ EXCEPT !.pc = "failed"]]
    /\ UNCHANGED <<generated, testcases, pc, temp_dir, dirs, container,
                   child, outcome, result, done_order, scoring_results,
                   all_accepted, response, prompt_cache, shares>>

NextShares ==
    \/ \E user \in UsersWide, challenge_id \in ChallengeIds,
          prompt \in Prompts :
         /\ prompt = PromptOf(Len(generated) + 1)
         /\ GenerateCode(user, challenge_id, prompt)
    \/ \E user \in UsersWide, challenge_id \in ChallengeIds,
          code \in CodesWide :
         /\ code = CodeOf(Len(request) + 1)
         /\ ScoreBegin(user, challenge_id, code)
    \/ \E r \in DOMAIN request : ScoreFinish(r)
    \/ \E r \in DOMAIN request : ScoreFail(r)

SpecShares == InitShares /\ [][NextShares]_vars

\* ---------------------------------------------------------------- claims
\* the caller has received the list of verdicts
Responded == response # None /\ response[1].status_code = 200
Body == response[1].body

\* the child of execution i exited before the deadline
Exited(i) == outcome[i].kind = "exit"
ExitOf(i) == outcome[i].exit[1]
TimedOut(i) == outcome[i].kind = "timeout"

C3_DeadlineGivesTimeout ==
    Responded =>
        \A i \in DOMAIN Body : TimedOut(i) => Body[i].status = TIMEOUT

\* C3 witness: a verdict for an execution whose deadline elapsed, the child
\* still running
C3_Witness ==
    /\ Responded
    /\ \E i \in DOMAIN Body :
         TimedOut(i) /\ child[i] = "running" /\ Body[i].status = TIMEOUT

\* C4: when the child ends with exit code 137 before the deadline, the
\* verdict is Memory Limit Exceeded, whatever files the container wrote
C4_OomGivesMemoryLimitExceeded ==
    Responded =>
        \A i \in DOMAIN Body :
            Exited(i) /\ ExitOf(i).returncode = EXIT_OOM
                => Body[i].status = MEMORY_LIMIT_EXCEEDED

C6_VerdictsInTestcaseOrder ==
    Responded =>
        /\ Len(Body) = Len(testcases)
        /\ \A i \in DOMAIN Body :
             /\ Body[i].testcase_id = testcases[i].id
             /\ Body[i].stdout = result[i][1].stdout
             /\ Body[i].stderr = result[i][1].stderr
             /\ Body[i].elapsed_time = result[i][1].elapsed_time
             /\ Body[i].max_memory_kb = result[i][1].max_memory_kb
             /\ Exited(i) /\ AllFiles \subseteq ExitOf(i).files
                  => Body[i].stdout = ExitOf(i).stdout

\* C6 witness: the second execution completed first, with another result
C6_Witness ==
    /\ Responded
    /\ done_order = <<2, 1>>
    /\ result[1] # result[2]
    /\ Body[1].stdout # Body[2].stdout

\* C7: all_accepted is true exactly when every verdict is Accepted; it is
\* computed once, when every verdict of the batch is there, and is not
\* changed afterwards
C7_AllAcceptedIffEveryVerdictAccepted ==
    /\ [](all_accepted # None =>
            /\ Len(scoring_results) = Len(testcases)
            /\ \A i \in Tasks : pc[i] = "done"
            /\ all_accepted[1] =
                 (\A k \in DOMAIN scoring_results :
                      scoring_results[k].status = ACCEPTED))
    /\ [][all_accepted # None =>
            all_accepted' = all_accepted
            /\ scoring_results' = scoring_results]_vars

\* C7 witness: one verdict among two is not Accepted, all_accepted is false
C7_Witness ==
    /\ all_accepted = Some(FALSE)
    /\ Len(scoring_results) = 2
    /\ scoring_results[1].status = ACCEPTED
    /\ scoring_results[2].status # ACCEPTED

\* C8: a score request that returns its verdicts has created exactly one
\* Share with its PSShare, passed or not, whose is_public and is_correct
\* both equal all_accepted
C8_OneShareWithAllAccepted ==
    Responded =>
        /\ Len(shares) = 1
        /\ shares[1].user_id = request[1].user
        /\ shares[1].challenge_id = ChallengeId
        /\ shares[1].ps_share.code = request[1].code
        /\ shares[1].is_public = all_accepted[1]
        /\ shares[1].ps_share.is_correct = all_accepted[1]
        /\ shares[1].is_public =
             (\A k \in DOMAIN Body : Body[k].status = ACCEPTED)

\* C8 witness: the share of a submission that did not pass
C8_Witness ==
    /\ Responded
    /\ Len(shares) = 1
    /\ ~shares[1].is_public
    /\ ~shares[1].ps_share.is_correct
    /\ \E k \in DOMAIN Body : Body[k].status = WRONG_ANSWER

\* an execution is still pending: its coroutine has neither returned nor raised
Pending(i) == pc[i] \notin {"done", "raised", "cancelled"}

\* C9: while an execution of the batch is pending, the request has produced
\* nothing: no verdict list, no share, no error
C9_NoOutcomeWhilePending ==
    (\E i \in Tasks : Pending(i)) => response = None /\ shares = <<>>

\* an execution hit an infrastructure fault
LaunchFault(i) == outcome[i].kind \in {"docker_missing", "spawn_error"}
WorkspaceFault(i) == outcome[i].kind = "workspace_error"

DockerMissing(i) == outcome[i].kind = "docker_missing"

\* C11: when docker cannot be spawned, the error of the returned result is
\* never "Runtime Error", the error of a user program that failed at run
\* time, whether /var/run/docker.sock exists or not
C11_DockerFaultNeverRuntimeError ==
    \A i \in Tasks :
        DockerMissing(i) => result[i][1].error # Some(RUNTIME_ERROR)

\* the attempt of execution i has ended: returned, raised or cancelled
Ended(i) == pc[i] \in {"done", "raised", "cancelled"}
InProgress(i) == pc[i] \in {"spawn", "communicate"}

Cancelled == request # None /\ request[1].pc = "cancelled"

\* C13: every score request comes to an end, with a response unless its
\* handler was cancelled, whatever the children do; an execution that waits
\* for its child ends once the child has exited or the deadline has
\* elapsed; and in a returned verdict list every execution whose child never
\* exited has the verdict Timeout
C13_EveryRequestCompletes ==
    /\ (request # None) ~> (response # None \/ Cancelled)
    /\ \A i \in 1..MaxTestcases :
         (i \in Tasks /\ pc[i] = "communicate") ~> (i \in Tasks /\ Ended(i))
    /\ [](Responded =>
            \A i \in DOMAIN Body :
                child[i] = "running" => Body[i].status = TIMEOUT)

\* C13 witness: a batch of two programs that never end has been answered,
\* each with the verdict Timeout
C13_Witness ==
    /\ Responded
    /\ Len(Body) = 2
    /\ \A i \in DOMAIN Body :
         child[i] = "running" /\ Body[i].status = TIMEOUT

\* C14: in every state in which a Timeout result has been returned for an
\* execution, the child process of that execution is no longer running
C14_TimedOutChildTerminated ==
    \A i \in Tasks :
        TimedOut(i) /\ result[i] # None /\ result[i][1].error = Some(TIMEOUT)
            => child[i] # "running"

\* C15: every child the launcher has spawned runs with the three limits:
\* no network, the memory ceiling of its own test case, the configured CPU
\* share; and no child runs without them
C15_EveryChildHasItsLimits ==
    \A i \in Tasks :
        /\ child[i] = "running" => container[i] # None
        /\ container[i] # None =>
             /\ container[i][1].network = "none"
             /\ container[i][1].memory = testcases[i].mem_limit
             /\ container[i][1].cpus = CPU_LIMIT

\* C15 witness: two children run at once under different memory ceilings
C15_Witness ==
    \E i, j \in Tasks :
        /\ child[i] = "running" /\ child[j] = "running"
        /\ container[i][1].memory = 64
        /\ container[j][1].memory = 128
        /\ container[i][1].network = "none"
        /\ container[j][1].cpus = CPU_LIMIT

\* C16: no two executions use the same workspace directory at the same
\* time: the directories of two executions in progress differ, the
\* directory of an execution exists and is mounted by its own child only,
\* and no other living container has it mounted
C16_NoSharedWorkspace ==
    /\ \A i \in Tasks :
         /\ InProgress(i) => temp_dir[i] # None /\ temp_dir[i][1] \in dirs
         /\ InProgress(i) /\ container[i] # None =>
              container[i][1].volume = temp_dir[i][1]
    /\ \A i, j \in Tasks :
         i # j =>
            /\ temp_dir[i] # None /\ temp_dir[j] # None =>
                 temp_dir[i][1] # temp_dir[j][1]
            /\ temp_dir[i] # None /\ container[j] # None =>
                 container[j][1].volume # temp_dir[i][1]

\* C16 witness: an execution waits for its running child in its own
\* directory while the container of a sibling that timed out is still alive
C16_Witness ==
    \E i, j \in Tasks :
        /\ pc[i] = "communicate" /\ child[i] = "running"
        /\ TimedOut(j) /\ container[j] # None
        /\ container[i][1].volume = temp_dir[i][1]
        /\ container[j][1].volume # temp_dir[i][1]

\* C17: the step in which an execution times out changes nothing of its
\* siblings (child, container, workspace, position, result), and the
\* verdict a sibling gets in the end is the one of its own result
C17_TimeoutLeavesSiblingsAlone ==
    /\ [][\A i \in Tasks :
            ~TimedOut(i) /\ TimedOut(i)' =>
                \A j \in Tasks \ {i} :
                    /\ child'[j] = child[j]
                    /\ container'[j] = container[j]
                    /\ temp_dir'[j] = temp_dir[j]
                    /\ temp_dir[j] # None => temp_dir[j][1] \in dirs'
                    /\ pc'[j] = pc[j]
                    /\ outcome'[j] = outcome[j]
                    /\ result'[j] = result[j]]_vars
    /\ [](Responded /\ (\E i \in Tasks : TimedOut(i)) =>
            \A j \in DOMAIN Body :
                Body[j] = ScoringResult(testcases[j], result[j][1]))

\* C17 witness: the first execution timed out before its sibling ended, and
\* the sibling was Accepted all the same
C17_Witness ==
    /\ Responded
    /\ done_order = <<1, 2>>
    /\ TimedOut(1) /\ child[1] = "running"
    /\ Exited(2)
    /\ Body[2].status = ACCEPTED

\* C18: the executions of a batch do not wait for one another: whatever its
\* siblings and their children are doing, an execution that has not made
\* its workspace can make it, and one that has can launch its child
C18_ExecutionsRunConcurrently ==
    \A i \in Tasks :
        /\ pc[i] = "created" => ENABLED Acquire(i)
        /\ pc[i] = "spawn" => ENABLED Spawn(i)

\* C18 witness: the children of a whole batch of the largest size are
\* running at once
C18_Witness ==
    /\ Len(testcases) = MaxTestcases
    /\ \A i \in Tasks : pc[i] = "communicate" /\ child[i] = "running"
    /\ Cardinality(Tasks) = MaxTestcases

\* C19: the classification of every result an execution has returned
\* yields one of the six statuses, and so does every entry of a returned
\* verdict list
C19_ClassificationTotal ==
    /\ \A i \in Tasks :
         result[i] # None =>
             StatusOf(result[i][1], testcases[i]) \in ScoringStatus
    /\ scoring_results # <<>> =>
         \A k \in DOMAIN scoring_results :
             scoring_results[k].status \in ScoringStatus

\* C19 witness: a result whose error text is none of the statuses has been
\* classified, beside a result without any error
C19_Witness ==
    /\ Responded
    /\ \E i, j \in DOMAIN Body :
         /\ result[i][1].error = Some(UnexpectedErrorMessage)
         /\ Body[i].status \in ScoringStatus
         /\ result[j][1].error = None
         /\ Body[j].status \in ScoringStatus

\* C20: a workspace exists from before its child is launched until the
\* execution attempt ends, and it is never removed while the child that has
\* it mounted is still running
C20_WorkspaceOutlivesChild ==
    \A i \in Tasks :
        /\ pc[i] = "spawn" => temp_dir[i] # None /\ temp_dir[i][1] \in dirs
        /\ child[i] = "running" /\ container[i] # None =>
             container[i][1].volume \in dirs

\* C21 as stated: the result of an execution that timed out has empty
\* stdout, no peak memory, the timeout message as stderr and an elapsed time
\* equal to the time limit of the request
C21_TimeoutElapsedIsLimit ==
    \A i \in Tasks :
        TimedOut(i) =>
            /\ result[i][1].stdout = <<>>
            /\ result[i][1].max_memory_kb = None
            /\ result[i][1].stderr = TimeoutMessage(testcases[i].time_limit)
            /\ result[i][1].elapsed_time = testcases[i].time_limit

\* C21 amended: the result of an execution that timed out has empty stdout,
\* no peak memory, the timeout message that names the time limit as stderr,
\* success false, error "Timeout", and as elapsed time the time measured
\* from before the spawn to the handling of the timeout, which is not less
\* than the time limit
C21_TimeoutElapsedIsMeasured ==
    \A i \in Tasks :
        TimedOut(i) =>
            /\ result[i][1].stdout = <<>>
            /\ result[i][1].max_memory_kb = None
            /\ result[i][1].stderr = TimeoutMessage(testcases[i].time_limit)
            /\ ~result[i][1].success
            /\ result[i][1].error = Some(TIMEOUT)
            /\ result[i][1].elapsed_time >= testcases[i].time_limit

\* C21 witness: a timeout whose measured time is more than the time limit
C21_Witness ==
    \E i \in Tasks :
        /\ TimedOut(i)
        /\ result[i][1].elapsed_time > testcases[i].time_limit
        /\ result[i][1].stdout = <<>>

\* C22: when the child ends with exit code 137, the stderr of the result is
\* the program's own stderr if that is not empty and the synthesized
\* memory-limit message otherwise, so it is never empty
C22_OomStderrNeverEmpty ==
    \A i \in Tasks :
        Exited(i) /\ ExitOf(i).returncode = EXIT_OOM =>
            /\ result[i][1].stderr # <<>>
            /\ result[i][1].stderr =
                 IF ExitOf(i).stderr # <<>>
                 THEN ExitOf(i).stderr
                 ELSE MemoryLimitMessage

\* the child of execution i exited and its statistics, read back, hold no
\* line of the peak memory
NoMemLine(i) ==
    /\ Exited(i)
    /\ AllFiles \subseteq ExitOf(i).files
    /\ ParseMemLine(ExitOf(i).time_stats) = <<>>

\* the same run with the line of the peak memory in its statistics
WithMemLine(o) == [o EXCEPT !.time_stats = <<[label |-> MemLabel, value |-> 1]>>]

\* C23: when the statistics read back after the child's exit hold no line of
\* the peak memory, the peak memory of the result is None, and success, error
\* and the status of the execution are those of the same run with the line
C23_MissingMemLineIsNoError ==
    \A i \in Tasks :
        NoMemLine(i) =>
            LET with == CompletedResult(WithMemLine(ExitOf(i)), 0)
            IN  /\ result[i][1].max_memory_kb = None
                /\ with.max_memory_kb # None
                /\ result[i][1].success = with.success
                /\ result[i][1].error = with.error
                /\ result[i][1].stdout = with.stdout
                /\ Responded =>
                     Body[i].status = StatusOf(with, testcases[i])

\* C23 witness: an Accepted verdict for a run whose statistics hold no line
\* of the peak memory
C23_Witness ==
    /\ Responded
    /\ \E i \in DOMAIN Body :
         /\ NoMemLine(i)
         /\ ExitOf(i).returncode = 0
         /\ Body[i].max_memory_kb = None
         /\ Body[i].status = ACCEPTED

\* the children of executions i and j ended the same way: both by the
\* deadline, or both by an exit with the same code, stdout and stderr
SameEnding(i, j) ==
    \/ TimedOut(i) /\ TimedOut(j)
    \/ /\ Exited(i) /\ Exited(j)
       /\ ExitOf(i).returncode = ExitOf(j).returncode
       /\ ExitOf(i).stdout = ExitOf(j).stdout
       /\ ExitOf(i).stderr = ExitOf(j).stderr

\* C24: two executions of the same code on test cases with the same
\* expected output and limits, whose children ended the same way, get the
\* same status
C24_SameEndingSameStatus ==
    Responded =>
        \A i, j \in DOMAIN Body :
            /\ testcases[i].output = testcases[j].output
            /\ testcases[i].time_limit = testcases[j].time_limit
            /\ testcases[i].mem_limit = testcases[j].mem_limit
            /\ SameEnding(i, j)
            => Body[i].status = Body[j].status

\* the users with a share, and with a correct share, for challenge c
AttemptedUsers(c) ==
    {u \in UsersWide :
        \E k \in DOMAIN shares :
            shares[k].user_id = u /\ shares[k].challenge_id = c}
SolvedUsers(c) ==
    {u \in UsersWide :
        \E k \in DOMAIN shares :
            /\ shares[k].user_id = u /\ shares[k].challenge_id = c
            /\ shares[k].ps_share.is_correct}

\* C25: the accuracy rate of a challenge is the number of users with a
\* correct share for it over the number of users with a share for it, and 0
\* when nobody has one; it lies between 0 and 1; and a wrong submission of a
\* user who has a correct one leaves it unchanged
C25_AccuracyRateByDistinctUsers ==
    /\ [](\A c \in ChallengeIds :
            LET rate == get_ps_challenge_accuracy_rate(shares, c)
            IN  /\ AttemptedUsers(c) = {} => rate.num = 0 /\ rate.den = 1
                /\ AttemptedUsers(c) # {} =>
                     /\ rate.num = Cardinality(SolvedUsers(c))
                     /\ rate.den = Cardinality(AttemptedUsers(c))
                /\ 0 <= rate.num /\ rate.num <= rate.den /\ rate.den > 0)
    /\ [][\A c \in ChallengeIds :
            /\ Len(shares') = Len(shares) + 1
            /\ shares'[Len(shares')].challenge_id = c
            /\ ~shares'[Len(shares')].ps_share.is_correct
            /\ shares'[Len(shares')].user_id \in SolvedUsers(c)
            => get_ps_challenge_accuracy_rate(shares', c)
                 = get_ps_challenge_accuracy_rate(shares, c)]_vars

\* C25 witness: three shares for one challenge, a correct and then a wrong
\* one of the first user and a wrong one of the second: the rate is 1/2
C25_Witness ==
    /\ Len(shares) = 3
    /\ \A k \in DOMAIN shares : shares[k].challenge_id = 1
    /\ shares[1].user_id = 1 /\ shares[1].ps_share.is_correct
    /\ shares[2].user_id = 1 /\ ~shares[2].ps_share.is_correct
    /\ shares[3].user_id = 2 /\ ~shares[3].ps_share.is_correct
    /\ get_ps_challenge_accuracy_rate(shares, 1) = [num |-> 1, den |-> 2]

\* the generate calls of a key, and the prompt of the most recent of them
CallsOf(key) ==
    {k \in DOMAIN generated :
        <<generated[k].user, generated[k].challenge_id>> = key}
LastPrompt(key) ==
    generated[CHOOSE k \in CallsOf(key) : \A j \in CallsOf(key) : j <= k].prompt

\* the step writes a share: the row it appends
SharesGrow == Len(shares') = Len(shares) + 1
NewRow == shares'[Len(shares')]
KeyOf(row) == <<row.user_id, row.challenge_id>>

C27_SuccessIffNoError ==
    /\ \A i \in Tasks :
         result[i] # None =>
             /\ result[i][1].success = (result[i][1].error = None)
             /\ result[i][1].success =>
                  Exited(i) /\ ExitOf(i).returncode = 0
             /\ ~(Exited(i) /\ ExitOf(i).returncode = 0) =>
                  StatusOf(result[i][1], testcases[i]) # ACCEPTED
    /\ Responded =>
         \A i \in DOMAIN Body :
             Body[i].status = ACCEPTED =>
                 /\ Exited(i) /\ ExitOf(i).returncode = 0
                 /\ result[i][1].success

\* C27 witness: the child exited with code 1 after it had printed exactly
\* the expected output, and the verdict is not Accepted
C27_Witness ==
    /\ Responded
    /\ \E i \in DOMAIN Body :
         /\ Exited(i) /\ ExitOf(i).returncode = 1
         /\ AllFiles \subseteq ExitOf(i).files
         /\ testcases[i].output = Some(ExitOf(i).stdout)
         /\ ~result[i][1].success
         /\ Body[i].status = RUNTIME_ERROR

\* the step ends score request r with its share written
Finishes(r) ==
    /\ r \in DOMAIN request
    /\ request[r].pc = "gathering"
    /\ request'[r].pc = "done"

\* C28: a score request that is not all accepted leaves the prompt cache as
\* it is and records a Share without prompt; an all-accepted request records
\* the prompt that is cached for its user and challenge at that time,
\* whatever its code, so a prompt that a failed attempt left in the cache
\* goes to the next all-accepted request of that user on that challenge
C28_FailedAttemptKeepsPrompt ==
    [][\A r \in DOMAIN request :
          Finishes(r) =>
              /\ SharesGrow
              /\ request'[r].share = Some(Len(shares'))
              /\ KeyOf(NewRow) = <<request[r].user, request[r].challenge_id>>
              /\ NewRow.ps_share.code = request[r].code
              /\ ~NewRow.ps_share.is_correct =>
                   /\ prompt_cache' = prompt_cache
                   /\ NewRow.prompt = None
              /\ NewRow.ps_share.is_correct =>
                   NewRow.prompt = CacheGet(prompt_cache, KeyOf(NewRow))]_vars

\* C28 witness: one generate call; a failed attempt of that user on that
\* challenge recorded no prompt, and the next, all-accepted request, with
\* another code, recorded the generated prompt
C28_Witness ==
    /\ Len(generated) = 1
    /\ Len(shares) = 2
    /\ KeyOf(shares[1]) = <<generated[1].user, generated[1].challenge_id>>
    /\ KeyOf(shares[2]) = KeyOf(shares[1])
    /\ ~shares[1].ps_share.is_correct /\ shares[1].prompt = None
    /\ shares[2].ps_share.is_correct
    /\ shares[2].prompt = Some(generated[1].prompt)
    /\ shares[2].ps_share.code # shares[1].ps_share.code

\* the shares that carry prompt p
SharesWith(p) == {k \in DOMAIN shares : shares[k].prompt = Some(p)}

\* score requests a and b of one user on one challenge ran at the same time
\* and both wrote a correct share: a arrived first and wrote its share last
Overlapped(a, b) ==
    /\ a < b
    /\ request[a].pc = "done" /\ request[b].pc = "done"
    /\ request[a].user = request[b].user
    /\ request[a].challenge_id = request[b].challenge_id
    /\ request[b].share[1] < request[a].share[1]
    /\ shares[request[a].share[1]].ps_share.is_correct
    /\ shares[request[b].share[1]].ps_share.is_correct

\* C29: the prompt of a generate call is carried by at most one Share; of
\* two all-accepted requests of one user on one challenge that ran at the
\* same time at most one carries a prompt unless a generate call came
\* between them, and the first to finish carries the cached one; when an
\* all-accepted request has written its share the entry of its key is gone
C29_PromptAttachedAtMostOnce ==
    /\ [](\A p \in Prompts : Cardinality(SharesWith(p)) <= 1)
    /\ [](\A a, b \in DOMAIN request :
            Overlapped(a, b) /\ Cardinality(CallsOf(KeyOf(shares[request[a].share[1]]))) <= 1
                => \/ shares[request[a].share[1]].prompt = None
                   \/ shares[request[b].share[1]].prompt = None)
    /\ [][SharesGrow /\ NewRow.ps_share.is_correct =>
            /\ KeyOf(NewRow) \notin DOMAIN prompt_cache'
            /\ KeyOf(NewRow) \in DOMAIN prompt_cache =>
                 NewRow.prompt = Some(prompt_cache[KeyOf(NewRow)])]_vars

\* C29 witness: two all-accepted requests of one user on one challenge ran
\* at the same time; the one that finished first carries the generated
\* prompt, the other none, and the cache has no entry of their key
C29_Witness ==
    /\ Len(generated) = 1
    /\ \E a, b \in DOMAIN request :
         /\ Overlapped(a, b)
         /\ shares[request[b].share[1]].prompt = Some(generated[1].prompt)
         /\ shares[request[a].share[1]].prompt = None
         /\ KeyOf(shares[request[a].share[1]]) \notin DOMAIN prompt_cache

\* the step is a generate call, or the end of a score request, of this key
StepOfKey(key) ==
    \/ /\ Len(generated') = Len(generated) + 1
       /\ <<generated'[Len(generated')].user,
            generated'[Len(generated')].challenge_id>> = key
    \/ \E r \in DOMAIN request :
         /\ <<request[r].user, request[r].challenge_id>> = key
         /\ request[r].pc = "gathering"
         /\ request'[r].pc # "gathering"

\* C30: the prompt of a Share of user u for challenge c is None or the
\* prompt of a generate call of u for c, and the cache entry of (u, c) is
\* changed or taken only by a generate call or a score request of u for c
C30_PromptsStayWithTheirKey ==
    /\ [](\A k \in DOMAIN shares :
            \/ shares[k].prompt = None
            \/ \E j \in CallsOf(KeyOf(shares[k])) :
                 shares[k].prompt = Some(generated[j].prompt))
    /\ [](\A key \in DOMAIN prompt_cache :
            \E j \in CallsOf(key) : prompt_cache[key] = generated[j].prompt)
    /\ [][\A key \in UsersWide \X ChallengeIds :
            CacheGet(prompt_cache', key) # CacheGet(prompt_cache, key)
                => StepOfKey(key)]_vars

\* C30 witness: two users generated for the same challenge; the Share of the
\* first carries the first user's prompt while the entry of the second user
\* is still in the cache
C30_Witness ==
    /\ Len(generated) = 2
    /\ generated[1].user # generated[2].user
    /\ generated[1].challenge_id = generated[2].challenge_id
    /\ \E k \in DOMAIN shares :
         /\ KeyOf(shares[k]) = <<generated[1].user, generated[1].challenge_id>>
         /\ shares[k].prompt = Some(generated[1].prompt)
    /\ CacheGet(prompt_cache,
                <<generated[2].user, generated[2].challenge_id>>)
         = Some(generated[2].prompt)
    /\ \E k \in DOMAIN shares :
         /\ shares[k].user_id = generated[2].user
         /\ shares[k].challenge_id # generated[2].challenge_id
         /\ shares[k].ps_share.is_correct
         /\ shares[k].prompt = None

====
